---- MODULE Spec2Model ----
(***************************************************************************)
(* Model of heic_to_jpg_converter.js: the batch driver (main), the         *)
(* per-file orchestrator (processOne), the still conversion chain          *)
(* (convertStill), the container scanner / candidate prober                *)
(* (detectEmbeddedVideo) and the MP4 normaliser (normalizeMp4).            *)
(*                                                                         *)
(* Byte offsets are 0-based as in the source; the byte at offset k of a    *)
(* buffer buf is buf[k+1].  A byte below 0x80 is the string of its ASCII   *)
(* character, a byte from 0x80 on the string of its two hex digits.        *)
(***************************************************************************)
EXTENDS Integers, Sequences, FiniteSets, TLC

VARIABLES
  tools,      \* detectTools(): tool name -> available (read-only after Init)
  args,       \* parseArgs(): [dryRun, recursive, quality]
  source,     \* storage: source path -> [bytes, orientation, rotate] of the file
  mpc,        \* position of main: "loop", "done", "fatal"
  queue,      \* files the iterator of main has still to yield
  count,      \* main: count
  failures,   \* main: failures
  processed,  \* files handed to processOne so far, in order
  pc,         \* position inside processOne / convertStill / detectEmbeddedVideo
  file,       \* processOne: file
  exifCode,   \* processOne: exifCode
  summary,    \* processOne: summary = [steps, errors]
  conv,       \* convertStill: failures, the invocations made, and its result
  dim,        \* processOne: dim
  det,        \* detectEmbeddedVideo: buf, candidates, loop index, probes, result
  norm,       \* processOne: norm, the result of normalizeMp4
  outJpg,     \* output directory: stem -> the <stem>.jpg there
  outMp4,     \* output directory: stem -> the <stem>.mp4 there
  scratch,    \* the scratch directory of processOne: [dir, slices]
  written,    \* paths written on storage since processOne was entered
  calls,      \* tools invoked since processOne was entered
  failed,     \* steps that failed since processOne was entered
  errored     \* files whose summary held an error when processOne returned

cfgVars == <<tools, args, source>>
mainVars == <<mpc, queue, count, failures, processed, errored>>
logVars == <<written, calls, failed>>

vars == <<tools, args, source, mpc, queue, count, failures, processed, pc, file,
          exifCode, summary, conv, dim, det, norm, outJpg, outMp4, scratch,
          written, calls, failed, errored>>

(***************************************************************************)
(* Bounds of the model.                                                    *)
(***************************************************************************)
\* number of chunks a synthetic byte buffer of the scanner is built from
MaxChunks == 4

(***************************************************************************)
(* Bytes, markers and brands.                                              *)
(***************************************************************************)
Ascii(a, b, c, d) == <<a, b, c, d>>

\* the needle of bytesIndexAll(buf, 'ftyp')
FtypMarker == Ascii("f", "t", "y", "p")

HEIF_LIKE_BRANDS ==
  { Ascii("h","e","i","c"), Ascii("h","e","i","x"), Ascii("h","e","v","c"),
    Ascii("h","e","v","x"), Ascii("h","e","i","m"), Ascii("h","e","i","s"),
    Ascii("h","e","v","m"), Ascii("h","e","v","s"), Ascii("m","i","f","1"),
    Ascii("m","s","f","1"), Ascii("a","v","i","f"), Ascii("a","v","i","s") }

\* what readAscii returns when the range leaves the buffer (null)
Null == <<>>

\* buf.indexOf(needle, i): the lowest offset j >= i at which needle occurs, or -1
RECURSIVE IndexOf(_, _, _)
IndexOf(buf, needle, i) ==
  IF i + Len(needle) > Len(buf) THEN -1
  ELSE IF SubSeq(buf, i + 1, i + Len(needle)) = needle THEN i
  ELSE IndexOf(buf, needle, i + 1)

\* the while loop of bytesIndexAll, started at offset i
RECURSIVE BytesIndexAllFrom(_, _, _)
BytesIndexAllFrom(buf, needle, i) ==
  LET j == IndexOf(buf, needle, i)
  IN  IF j = -1 THEN <<>>
      ELSE <<j>> \o BytesIndexAllFrom(buf, needle, j + 1)

bytesIndexAll(buf, needle) == BytesIndexAllFrom(buf, needle, 0)

\* a byte as buf.toString('ascii', ...) decodes it: the highest bit is unset
\* (0xE8 is 'h' with the highest bit set)
AsciiDecode(byte) == IF byte = "E8" THEN "h" ELSE byte

readAscii(buf, off, len) ==
  IF off < 0 \/ off + len > Len(buf) THEN Null
  ELSE [k \in 1..len |-> AsciiDecode(buf[off + k])]

\* the guards of the candidate loop: which marker offsets become candidates
SkipsBoxStart(boxStart) == boxStart < 0 \/ boxStart = 0

SkipsBrandMutant(major) == FALSE

SkipsBrand(major) == major # Null /\ major \in HEIF_LIKE_BRANDS

\* the for loop over ftypIdxs that fills candidates
RECURSIVE CollectCandidates(_, _)
CollectCandidates(buf, idxs) ==
  IF idxs = <<>> THEN <<>>
  ELSE LET i        == Head(idxs)
           boxStart == i - 4
           major    == readAscii(buf, i + 4, 4)
           rest     == CollectCandidates(buf, Tail(idxs))
       IN  IF SkipsBoxStart(boxStart) THEN rest
           ELSE IF SkipsBrand(major) THEN rest
           ELSE <<[start |-> boxStart, ftypIndex |-> i, major |-> major]>> \o rest

\* candidates left in the order of the scan
SortByStartDescMutant(cs) == cs

\* candidates.sort((a, b) => b.start - a.start): stable, descending by start
RECURSIVE InsertByStart(_, _)
InsertByStart(c, sorted) ==
  IF sorted = <<>> THEN <<c>>
  ELSE IF c.start > Head(sorted).start THEN <<c>> \o sorted
  ELSE <<Head(sorted)>> \o InsertByStart(c, Tail(sorted))

RECURSIVE SortByStartDesc(_)
SortByStartDesc(cs) ==
  IF cs = <<>> THEN <<>>
  ELSE InsertByStart(cs[Len(cs)], SortByStartDesc(SubSeq(cs, 1, Len(cs) - 1)))

\* the candidate list detectEmbeddedVideo probes, for a buffer
ScanCandidates(buf) ==
  SortByStartDesc(CollectCandidates(buf, bytesIndexAll(buf, FtypMarker)))

(***************************************************************************)
(* Tools.                                                                  *)
(***************************************************************************)
ToolNames == {"exiftool", "ffmpeg", "ffprobe", "magick", "convert", "heif-convert"}

\* detectTools, from the set of tool names `which` finds
detectTools(found) ==
  [t \in ToolNames \cup {"imagemagick"} |->
     IF t = "imagemagick" THEN ("magick" \in found \/ "convert" \in found)
     ELSE t \in found]

\* exit codes a spawned tool resolves with (run): zero, non-zero
ExitCodes == {0, 1}

(***************************************************************************)
(* Orientation helpers.                                                    *)
(***************************************************************************)
\* Number(...) of text that is no number
NaN == -100000

IsFinite(n) == n # NaN

\* Number(...) of text that is a number but no integer: k + 1/2, for k >= 0,
\* is held as HalfBase + k
HalfBase == 1000000

Half(k) == HalfBase + k

\* n >= k and n <= k for a Number n and an integer k
AtLeast(n, k) == IF n >= HalfBase THEN n - HalfBase >= k ELSE n >= k

AtMost(n, k) == IF n >= HalfBase THEN n - HalfBase < k ELSE n <= k

\* JavaScript's remainder: the sign of the dividend
JsRem(a, b) == IF a >= 0 THEN a % b ELSE 0 - ((0 - a) % b)

\* getExifOrientationCode: exif = [code, n] is the exiftool run (n = Number of
\* its trimmed stdout), probe = [code, parsed, rot] the ffprobe run
getExifOrientationCode(t, exif, probe) ==
  IF t["exiftool"] /\ exif.code = 0 /\ IsFinite(exif.n)
     /\ AtLeast(exif.n, 1) /\ AtMost(exif.n, 8)
  THEN exif.n
  ELSE IF t["ffprobe"] /\ probe.code = 0 /\ probe.parsed /\ IsFinite(probe.rot)
  THEN LET r == JsRem(JsRem(probe.rot, 360) + 360, 360)
       IN  IF r = 0 THEN 1
           ELSE IF r = 90 THEN 6
           ELSE IF r = 180 THEN 3
           ELSE IF r = 270 THEN 8
           ELSE 1
  ELSE 1

imagemagickOpsForExif(code) ==
  CASE code = 2 -> <<"-flop">>
    [] code = 3 -> <<"-rotate", "180">>
    [] code = 4 -> <<"-flip">>
    [] code = 5 -> <<"-transpose">>
    [] code = 6 -> <<"-rotate", "90">>
    [] code = 7 -> <<"-transverse">>
    [] code = 8 -> <<"-rotate", "270">>
    [] OTHER    -> <<>>

\* null is the empty string here: both are falsy in `if (vf)`
NoFilter == ""

ffmpegFilterForExifMutant(code) ==
  CASE code = 2 -> "hflip"
    [] code = 3 -> "hflip,vflip"
    [] code = 4 -> "vflip"
    [] code = 5 -> "transpose=1,hflip"
    [] code = 6 -> "transpose=2"
    [] code = 7 -> "transpose=2,hflip"
    [] code = 8 -> "transpose=1"
    [] OTHER    -> NoFilter

ffmpegFilterForExif(code) ==
  CASE code = 2 -> "hflip"
    [] code = 3 -> "hflip,vflip"
    [] code = 4 -> "vflip"
    [] code = 5 -> "transpose=1,hflip"
    [] code = 6 -> "transpose=1"
    [] code = 7 -> "transpose=2,hflip"
    [] code = 8 -> "transpose=2"
    [] OTHER    -> NoFilter


(***************************************************************************)
(* Dimension validators.                                                   *)
(***************************************************************************)
\* getImageDimensions: res = [code, lines] is the exiftool run, lines the
\* numbers of its stdout lines
getImageDimensions(t, res) ==
  IF t["exiftool"] /\ res.code = 0 /\ Len(res.lines) = 2
     /\ \A k \in 1..Len(res.lines) : IsFinite(res.lines[k])
  THEN [width |-> res.lines[1], height |-> res.lines[2], source |-> "exiftool"]
  ELSE [width |-> 0, height |-> 0, source |-> "none"]

plausibleDimensionsMutant(w, h) ==
  IF w = 0 \/ h = 0 \/ w = NaN \/ h = NaN THEN FALSE
  ELSE IF w <= 64 \/ h <= 64 THEN FALSE
  ELSE IF w = 512 /\ h = 512 THEN FALSE
  ELSE TRUE

plausibleDimensions(w, h) ==
  IF w = 0 \/ h = 0 \/ w = NaN \/ h = NaN THEN FALSE
  ELSE IF w <= 64 \/ h <= 64 THEN FALSE
  ELSE IF (w = 512 /\ h = 512) \/ (w = 320 /\ h = 240) THEN FALSE
  ELSE TRUE

\* stdout lines exiftool reports for the width and height of an output
DimensionOutputs ==
  { <<4032, 3024>>, <<3024, 4032>>, <<65, 65>>, <<240, 320>>, <<512, 320>>,
    <<512, 512>>, <<320, 240>>, <<64, 4032>>, <<4032, 64>>, <<4032>> }

(***************************************************************************)
(* The source directory and the files in it.                               *)
(***************************************************************************)
\* a path below the source directory: the directories, then <stem>.<ext>
Path(dir, stem, ext) == [dir |-> dir, stem |-> stem, ext |-> ext]

NoFile == Path(<<>>, "", "")

Entry(stem, ext, isDir) == [stem |-> stem, ext |-> ext, isDir |-> isDir]

\* fs.readdir(root, { withFileTypes: true }) of the source tree
ReadDir(root) ==
  CASE root = <<>> ->
         << Entry("a", "heic", FALSE), Entry("sub", "", TRUE),
            Entry("a", "heif", FALSE), Entry("notes", "txt", FALSE) >>
    [] root = <<"sub">> ->
         << Entry("c", "HEIC", FALSE), Entry("deep", "", TRUE) >>
    [] root = <<"sub", "deep">> ->
         << Entry("d", "heif", FALSE) >>
    [] OTHER -> <<>>

\* the i flag of /\.(heic|heif)$/i
LowerCase(ext) ==
  CASE ext = "HEIC" -> "heic"
    [] ext = "HEIF" -> "heif"
    [] OTHER -> ext

\* /\.(heic|heif)$/i.test(d.name)
IsHeicName(e) == LowerCase(e.ext) \in {"heic", "heif"}

\* the async generator iterateFiles, as the sequence of paths it yields
RECURSIVE IterateEntries(_, _, _)
IterateEntries(root, entries, recursive) ==
  IF entries = <<>> THEN <<>>
  ELSE LET d    == Head(entries)
           rest == IterateEntries(root, Tail(entries), recursive)
       IN  IF d.isDir
           THEN (IF recursive
                 THEN IterateEntries(Append(root, d.stem),
                                     ReadDir(Append(root, d.stem)), recursive)
                 ELSE <<>>) \o rest
           ELSE IF IsHeicName(d) THEN <<Path(root, d.stem, d.ext)>> \o rest
           ELSE rest

iterateFiles(root, recursive) == IterateEntries(root, ReadDir(root), recursive)

\* the recursive option main passes to iterateFiles
MainRecursiveOption(a) == FALSE

\* path.parse(file).name
BaseOf(f) == f.stem

\* path.join(outDir, base + '.jpg') and path.join(outDir, base + '.mp4'), as
\* the name inside the output directory
jpgPathFor(base) == <<base, "jpg">>

mp4PathFor(base) == <<base, "mp4">>

Stems == {"a", "c", "d"}

\* filler bytes: a box size field, and one byte in front of a box
Size4 == Ascii("0", "0", "0", "0")
Pad1 == <<"0">>
BrandHeic == Ascii("h", "e", "i", "c")
BrandMif1 == Ascii("m", "i", "f", "1")
BrandMp42 == Ascii("m", "p", "4", "2")
\* four bytes that are no brand of the family and decode to 'heic'
BrandHighBit == Ascii("E8", "e", "i", "c")

\* a field or tag that is not there
Absent == -1

\* a file of the source tree: the bytes fs.readFile gives, the Orientation tag
\* exiftool prints for it (as Number of its stdout) and the rotate tag of its
\* first video stream
SourceFile(bytes, orientation, rotate) ==
  [bytes |-> bytes, orientation |-> orientation, rotate |-> rotate]

Content(f) ==
  CASE f.stem = "a" /\ f.ext = "heic" ->
         SourceFile(Size4 \o FtypMarker \o BrandHeic \o Size4 \o FtypMarker \o BrandMp42,
                    6, Absent)
    [] f.stem = "a" /\ f.ext = "heif" ->
         SourceFile(Size4 \o FtypMarker \o BrandMif1 \o Size4 \o FtypMarker \o BrandHeic,
                    0, 270)
    [] OTHER ->
         SourceFile(Size4 \o FtypMarker \o BrandHeic, 1, Absent)

(***************************************************************************)
(* What ffprobe reports for a slice, and what the prober makes of it.      *)
(***************************************************************************)
\* a || b for a field that is a string when present (a non-empty string,
\* "0" included, is truthy)
OrElse(a, b) == IF a # Absent THEN a ELSE b

\* side is side_data_list, as the sequence of its side_data_type values
Stream(codec, pic, w, h, frames, dur, rot, side) ==
  [codec_type |-> codec, attached_pic |-> pic, width |-> w, height |-> h,
   nb_frames |-> frames, duration |-> dur, rotate |-> rot, side_data_list |-> side]

\* the side_data_type ffprobe prints for a display matrix
DisplayMatrixType == "Display Matrix"

\* /displaymatrix/i.test(type): of the type names here, those that hold the
\* letters of displaymatrix in a row
MatchesDisplayMatrix(type) == type \in {"displaymatrix", "DisplayMatrix"}

\* format_name is the list of its comma separated names; durations are in
\* milliseconds
Json(names, nbStreams, dur, streams) ==
  [format_name |-> names, nb_streams |-> nbStreams, duration |-> dur,
   streams |-> streams]

\* JSON.parse('{}')
EmptyJson == Json(<<>>, 0, Absent, <<>>)

Mp4Names == <<"mov", "mp4", "m4a", "3gp", "3g2", "mj2">>

ProbeOutputs ==
  { Json(Mp4Names, 2, 3000, <<Stream("video", FALSE, 1080, 1920, 90, 3000, Absent, <<>>)>>),
    Json(Mp4Names, 2, 3000, <<Stream("video", FALSE, 1920, 1080, 90, 3000, 90, <<>>)>>),
    Json(Mp4Names, 1, 3000, <<Stream("video", FALSE, 1920, 1080, 90, 3000, Absent, <<DisplayMatrixType>>)>>),
    Json(Mp4Names, 1, Absent, <<Stream("video", TRUE, 512, 512, 1, Absent, Absent, <<>>)>>),
    Json(Mp4Names, 1, 100, <<Stream("video", FALSE, 16, 16, 90, 3000, Absent, <<>>)>>),
    Json(Mp4Names, 1, 0, <<Stream("video", FALSE, 1920, 1080, 1, 0, Absent, <<>>)>>),
    Json(<<"matroska", "webm">>, 1, 3000, <<Stream("video", FALSE, 1920, 1080, 90, 3000, Absent, <<>>)>>),
    Json(Mp4Names, 1, 3000, <<Stream("audio", FALSE, 0, 0, Absent, 3000, Absent, <<>>)>>),
    Json(Mp4Names, 6, Absent, <<Stream("video", FALSE, 1920, 1080, Absent, Absent, Absent, <<>>)>>) }

\* /(mp4|mov|3g2|3gp|mj2)/.test(fmtName)
IsContainerOk(names) ==
  \E k \in 1..Len(names) : names[k] \in {"mp4", "mov", "3g2", "3gp", "mj2"}

\* seq.find(pred): the index of the first element with pred, 0 when none;
\* hits[k] tells whether pred holds of the k-th element
RECURSIVE FindFrom(_, _)
FindFrom(hits, k) ==
  IF k > Len(hits) THEN 0
  ELSE IF hits[k] THEN k
  ELSE FindFrom(hits, k + 1)

IsMotionStream(s) == s.codec_type = "video" /\ ~s.attached_pic
IsVideoStream(s) == s.codec_type = "video"

\* the four conditions computed from the parsed probe, and their conjunction
ProbeVerdict(json) ==
  LET k        == FindFrom([i \in 1..Len(json.streams) |-> IsMotionStream(json.streams[i])], 1)
      hasV     == k # 0
      w        == IF hasV THEN json.streams[k].width ELSE 0
      h        == IF hasV THEN json.streams[k].height ELSE 0
      frames   == IF hasV THEN json.streams[k].nb_frames ELSE Absent
      sdur     == IF hasV THEN json.streams[k].duration ELSE Absent
      nbFrames == IF frames # Absent THEN frames ELSE json.nb_streams
      duration == OrElse(OrElse(json.duration, sdur), 0)
  IN  [isContainerOk |-> IsContainerOk(json.format_name),
       firstV        |-> hasV,
       dimOk         |-> (w > 32 /\ h > 32),
       motionOk      |-> (nbFrames > 5 \/ duration > 300)]

ProbeAccepts(json) ==
  LET v == ProbeVerdict(json)
  IN  v.isContainerOk /\ v.firstV /\ v.dimOk /\ v.motionOk

(***************************************************************************)
(* normalizeMp4: the plan it derives from the probe of the accepted slice. *)
(***************************************************************************)
NormalizePlan(json) ==
  LET k         == FindFrom([i \in 1..Len(json.streams) |-> IsVideoStream(json.streams[i])], 1)
      tagRotate == IF k # 0 THEN OrElse(json.streams[k].rotate, 0) ELSE 0
      rotate    == IF IsFinite(tagRotate) THEN JsRem(tagRotate, 360) ELSE 0
      side      == IF k # 0 THEN json.streams[k].side_data_list ELSE <<>>
      hasDM     == \E j \in 1..Len(side) : MatchesDisplayMatrix(side[j])
      r         == JsRem(JsRem(rotate, 360) + 360, 360)
  IN  IF rotate # 0 \/ hasDM
      THEN [method |-> "reencode", faststart |-> TRUE,
            vf |-> IF r = 90 THEN "transpose=1"
                   ELSE IF r = 270 THEN "transpose=2"
                   ELSE IF r = 180 THEN "hflip,vflip"
                   ELSE "null"]
      ELSE [method |-> "copy", faststart |-> TRUE, vf |-> NoFilter]

(***************************************************************************)
(* convertStill: what each strategy passes to its tool.                    *)
(***************************************************************************)
\* const ops = imagemagickOpsForExif(...) of the ImageMagick strategy
ConvertStillImOps(code) == imagemagickOpsForExif(3)

\* Math.min(hi, Math.max(lo, x))
Clamp(x, lo, hi) == IF x < lo THEN lo ELSE IF x > hi THEN hi ELSE x

\* Math.round(31 - (q / 100) * 29), for an integer q
RoundQscale(q) == (3150 - 29 * q) \div 100

\* const qscale = ... of the ffmpeg strategy
ConvertStillQscale(quality) == Clamp(RoundQscale(Clamp(95, 1, 100)), 2, 31)

\* res.code === 0 && await exists(dstFile)
StrategyOkMutant(code, dstExists) == code = 0 \/ dstExists

StrategyOk(code, dstExists) == code = 0 /\ dstExists

(***************************************************************************)
(* Records of the state.                                                   *)
(***************************************************************************)
Step(kind, detail) == <<kind, detail>>

NoSummary == [steps |-> <<>>, errors |-> <<>>]

\* convertStill before its first strategy; runs are the invocations it made
NoConv == [done |-> FALSE, ok |-> FALSE, method |-> "", failures |-> <<>>,
           runs |-> <<>>]

NoDim == [width |-> 0, height |-> 0, source |-> "unset"]

\* kept are the box starts of the slices an unlink left behind
NoDet == [buf |-> <<>>, cands |-> <<>>, i |-> 0, probed |-> <<>>, kept |-> {},
          done |-> FALSE, ok |-> FALSE, reason |-> "",
          tmp |-> Absent, ffprobe |-> EmptyJson]

NoNorm == [ok |-> FALSE, method |-> "", vf |-> NoFilter, faststart |-> FALSE,
           reason |-> ""]

\* a file of the output directory: who wrote it, and from which source
Produced(writer, src) == [writer |-> writer, src |-> src]
AbsentFile == Produced("none", NoFile)
StaleFile == Produced("stale", NoFile)

\* await exists(p), for a file of the output directory
exists(f) == f.writer # "none"

NoScratch == [dir |-> FALSE, slices |-> {}]

\* a path written on storage
Wrote(kind, stem, start) == [kind |-> kind, stem |-> stem, start |-> start]

\* one invocation of a still converter
Invocation(tool, sub, ops, vf, q) ==
  [tool |-> tool, sub |-> sub, ops |-> ops, vf |-> vf, q |-> q,
   code |-> 0, wrote |-> FALSE, existed |-> FALSE]

(***************************************************************************)
(* convertStill.                                                           *)
(***************************************************************************)
\* a chain that goes on after a success
RunStrategyMutant(method, inv, nextPc) ==
  \E code \in ExitCodes, wrote \in BOOLEAN :
    LET stem      == BaseOf(file)
        jpgAfter  == IF wrote THEN Produced(method, file) ELSE outJpg[stem]
        dstExists == exists(jpgAfter)
        run       == [inv EXCEPT !.code = code, !.wrote = wrote, !.existed = dstExists]
    IN  /\ outJpg' = [outJpg EXCEPT ![stem] = jpgAfter]
        /\ written' = IF wrote THEN written \cup {Wrote("jpg", stem, 0)} ELSE written
        /\ calls' = calls \cup {method}
        /\ IF StrategyOk(code, dstExists)
           THEN /\ conv' = [conv EXCEPT !.done = TRUE, !.ok = TRUE, !.method = method,
                                        !.runs = Append(@, run)]
                /\ pc' = nextPc
           ELSE /\ conv' = [conv EXCEPT !.done = (nextPc = "conv_ret"),
                                        !.failures = Append(@, [method |-> method, code |-> code]),
                                        !.runs = Append(@, run)]
                /\ pc' = nextPc

\* run one strategy: the tool exits with some code and has or has not written
\* dstFile; success returns, failure goes on to the strategy at nextPc
RunStrategy(method, inv, nextPc) ==
  \E code \in ExitCodes, wrote \in BOOLEAN :
    LET stem      == BaseOf(file)
        jpgAfter  == IF wrote THEN Produced(method, file) ELSE outJpg[stem]
        dstExists == exists(jpgAfter)
        run       == [inv EXCEPT !.code = code, !.wrote = wrote, !.existed = dstExists]
    IN  /\ outJpg' = [outJpg EXCEPT ![stem] = jpgAfter]
        /\ written' = IF wrote THEN written \cup {Wrote("jpg", stem, 0)} ELSE written
        /\ calls' = calls \cup {method}
        /\ IF StrategyOk(code, dstExists)
           THEN /\ conv' = [conv EXCEPT !.done = TRUE, !.ok = TRUE, !.method = method,
                                        !.runs = Append(@, run)]
                /\ pc' = "conv_ret"
           ELSE /\ conv' = [conv EXCEPT !.done = (nextPc = "conv_ret"),
                                        !.failures = Append(@, [method |-> method, code |-> code]),
                                        !.runs = Append(@, run)]
                /\ pc' = nextPc

SkipStrategy(nextPc) ==
  /\ conv' = [conv EXCEPT !.done = (nextPc = "conv_ret")]
  /\ pc' = nextPc
  /\ UNCHANGED <<outJpg, written, calls>>

\* 1) ImageMagick
ConvIM ==
  /\ pc = "conv_im"
  /\ IF tools["imagemagick"]
     THEN RunStrategy("imagemagick",
                      Invocation("imagemagick", tools["magick"],
                                 ConvertStillImOps(exifCode), NoFilter, args.quality),
                      "conv_heif")
     ELSE SkipStrategy("conv_heif")
  /\ UNCHANGED <<cfgVars, mainVars, file, exifCode, summary, dim, det, norm,
                 outMp4, scratch, failed>>

\* 2) heif-convert
ConvHeif ==
  /\ pc = "conv_heif"
  /\ IF tools["heif-convert"]
     THEN RunStrategy("heif-convert",
                      Invocation("heif-convert", FALSE, <<>>, NoFilter, 0),
                      "conv_ffmpeg")
     ELSE SkipStrategy("conv_ffmpeg")
  /\ UNCHANGED <<cfgVars, mainVars, file, exifCode, summary, dim, det, norm,
                 outMp4, scratch, failed>>

\* 3) ffmpeg fallback, and the aggregate failure after it
ConvFfmpeg ==
  /\ pc = "conv_ffmpeg"
  /\ IF tools["ffmpeg"]
     THEN RunStrategy("ffmpeg-frame",
                      Invocation("ffmpeg-frame", FALSE, <<>>, ffmpegFilterForExif(exifCode),
                                 ConvertStillQscale(args.quality)),
                      "conv_ret")
     ELSE SkipStrategy("conv_ret")
  /\ UNCHANGED <<cfgVars, mainVars, file, exifCode, summary, dim, det, norm,
                 outMp4, scratch, failed>>

(***************************************************************************)
(* processOne, still path.                                                 *)
(***************************************************************************)
\* fs.mkdtemp and the summary; a failing mkdtemp rejects processOne, which
\* main does not catch: main().catch exits the process
P_Start ==
  /\ pc = "start"
  /\ \E mkdtempOk \in BOOLEAN :
       IF mkdtempOk
       THEN /\ scratch' = [dir |-> TRUE, slices |-> {}]
            /\ pc' = "orient"
            /\ mpc' = mpc
            /\ failed' = failed
       ELSE /\ scratch' = scratch
            /\ pc' = "thrown"
            /\ mpc' = "fatal"
            /\ failed' = failed \cup {"mkdtemp"}
  /\ summary' = NoSummary
  /\ UNCHANGED <<cfgVars, queue, count, failures, processed, errored, file,
                 exifCode, conv, dim, det, norm, outJpg, outMp4, written, calls>>

\* const exifCode = await getExifOrientationCode(tools, file), and the dry-run
\* branch of the still path
P_Orient ==
  /\ pc = "orient"
  /\ \E ecode \in ExitCodes, pcode \in ExitCodes, parsed \in BOOLEAN :
       exifCode' = getExifOrientationCode(tools,
                     [code |-> ecode, n |-> source[file].orientation],
                     [code |-> pcode, parsed |-> parsed,
                      rot |-> OrElse(source[file].rotate, 0)])
  /\ IF args.dryRun
     THEN /\ summary' = [summary EXCEPT !.steps =
                           Append(@, Step("dry-run", "skip still conversion"))]
          /\ pc' = "motion"
     ELSE /\ summary' = summary
          /\ pc' = "conv_im"
  /\ UNCHANGED <<cfgVars, mainVars, file, conv, dim, det, norm, outJpg, outMp4,
                 scratch, logVars>>

\* convertStill has returned: if (!conv.ok) { errors.push; throw } ; steps.push.
\* Of conv, the result is kept; the locals of convertStill are gone
P_AfterConv ==
  /\ pc = "conv_ret"
  /\ conv' = [conv EXCEPT !.runs = <<>>]
  /\ IF ~conv.ok
     THEN /\ summary' = [summary EXCEPT !.errors =
                           Append(@, "All still conversion paths failed")]
          /\ failed' = failed \cup {"convert"}
          /\ pc' = "finally"
     ELSE /\ summary' = [summary EXCEPT !.steps = Append(@, Step("still", conv.method))]
          /\ failed' = failed
          /\ pc' = "validate"
  /\ UNCHANGED <<cfgVars, mainVars, file, exifCode, dim, det, norm, outJpg,
                 outMp4, scratch, written, calls>>

\* getImageDimensions and plausibleDimensions
P_Validate ==
  /\ pc = "validate"
  /\ \E code \in ExitCodes, lines \in DimensionOutputs :
       LET d == getImageDimensions(tools, [code |-> code, lines |-> lines])
       IN  /\ dim' = d
           /\ IF ~plausibleDimensions(d.width, d.height)
              THEN /\ summary' = [summary EXCEPT !.errors =
                                    Append(@, "implausible dimensions")]
                   /\ failed' = failed \cup {"validate"}
                   /\ pc' = "finally"
              ELSE /\ summary' = summary
                   /\ failed' = failed
                   /\ pc' = "meta"
  /\ calls' = IF tools["exiftool"] THEN calls \cup {"exiftool-dimensions"} ELSE calls
  /\ UNCHANGED <<cfgVars, mainVars, file, exifCode, conv, det, norm, outJpg,
                 outMp4, scratch, written>>

\* copyAllMetadata(tools, src, dst), for the exit code of exiftool
copyAllMetadata(t, code) ==
  IF ~t["exiftool"] THEN [ok |-> FALSE, reason |-> "exiftool_missing"]
  ELSE IF code # 0 THEN [ok |-> FALSE, reason |-> "exiftool_failed"]
  ELSE [ok |-> TRUE, reason |-> ""]

\* const meta = await copyAllMetadata(...); steps.push; the block of the still
\* path ends, and conv, dim and meta with it
P_Meta ==
  /\ pc = "meta"
  /\ \E code \in ExitCodes :
       LET m == copyAllMetadata(tools, code)
       IN  /\ written' = IF m.ok THEN written \cup {Wrote("jpg", BaseOf(file), 0)}
                         ELSE written
           /\ failed' = IF m.ok THEN failed ELSE failed \cup {"metadata"}
           /\ summary' = [summary EXCEPT !.steps =
                Append(@, Step("metadata", IF m.ok THEN "copied+Orientation=1"
                                           ELSE "skipped/partial"))]
  /\ calls' = IF tools["exiftool"] THEN calls \cup {"exiftool-metadata"} ELSE calls
  /\ conv' = NoConv
  /\ dim' = NoDim
  /\ pc' = "motion"
  /\ UNCHANGED <<cfgVars, mainVars, file, exifCode, det, norm, outJpg, outMp4,
                 scratch>>

(***************************************************************************)
(* detectEmbeddedVideo.                                                    *)
(***************************************************************************)
\* the ffprobe guard, fs.readFile, the scan and the sort; a failing readFile
\* rejects detectEmbeddedVideo, which the catch of processOne receives
D_Scan ==
  /\ pc = "detect"
  /\ IF ~tools["ffprobe"]
     THEN /\ det' = [NoDet EXCEPT !.done = TRUE, !.reason = "ffprobe_missing"]
          /\ pc' = "after_det"
          /\ UNCHANGED <<calls, failed>>
     ELSE \E readOk \in BOOLEAN :
            IF ~readOk
            THEN /\ det' = NoDet
                 /\ pc' = "finally"
                 /\ calls' = calls
                 /\ failed' = failed \cup {"readFile"}
            ELSE LET buf   == source[file].bytes
                     cands == ScanCandidates(buf)
                 IN  /\ calls' = calls \cup {"scan"}
                     /\ failed' = failed
                     /\ IF cands = <<>>
                        THEN /\ det' = [NoDet EXCEPT !.buf = buf, !.done = TRUE,
                                                     !.reason = "no_candidates"]
                             /\ pc' = "after_det"
                        ELSE /\ det' = [NoDet EXCEPT !.buf = buf, !.cands = cands,
                                                     !.i = 1]
                             /\ pc' = "probe"
  /\ UNCHANGED <<cfgVars, mainVars, file, exifCode, summary, conv, dim, norm,
                 outJpg, outMp4, scratch, written>>

\* one turn of the for loop over candidates: write the slice, probe it, accept
\* it or unlink it and go on
D_Probe ==
  /\ pc = "probe"
  /\ \E writeOk \in BOOLEAN, code \in ExitCodes, parsed \in BOOLEAN,
        json \in ProbeOutputs, unlinkOk \in BOOLEAN :
       LET c        == det.cands[det.i]
           accepted == writeOk /\ code = 0 /\ parsed /\ ProbeAccepts(json)
           probed   == IF writeOk THEN Append(det.probed, c.start) ELSE det.probed
           last     == det.i = Len(det.cands)
       IN  /\ written' = IF writeOk
                         THEN written \cup {Wrote("slice", BaseOf(file), c.start)}
                         ELSE written
           /\ calls' = IF writeOk THEN calls \cup {"ffprobe-slice"} ELSE calls
           /\ failed' = IF writeOk /\ code = 0 /\ parsed THEN failed
                        ELSE failed \cup {"probe"}
           /\ IF accepted
              THEN /\ scratch' = [scratch EXCEPT !.slices = @ \cup {c.start}]
                   /\ det' = [det EXCEPT !.probed = probed, !.done = TRUE, !.ok = TRUE,
                                         !.tmp = c.start, !.ffprobe = json]
                   /\ pc' = "after_det"
              ELSE /\ scratch' = [scratch EXCEPT !.slices =
                                    IF unlinkOk THEN @ \ {c.start} ELSE @ \cup {c.start}]
                   /\ det' = [det EXCEPT !.probed = probed,
                                         !.kept = IF unlinkOk THEN @ ELSE @ \cup {c.start},
                                         !.i = IF last THEN @ ELSE @ + 1,
                                         !.done = last,
                                         !.reason = IF last THEN "no_valid_slice" ELSE @]
                   /\ pc' = IF last THEN "after_det" ELSE "probe"
  /\ UNCHANGED <<cfgVars, mainVars, file, exifCode, summary, conv, dim, norm,
                 outJpg, outMp4>>

(***************************************************************************)
(* normalizeMp4.                                                           *)
(***************************************************************************)
\* normalizeMp4(tools, det.tmpPath, mp4Out, det.ffprobe)
N_Normalize ==
  /\ pc = "normalize"
  /\ IF ~tools["ffmpeg"]
     THEN /\ norm' = [NoNorm EXCEPT !.reason = "ffmpeg_missing"]
          /\ UNCHANGED <<outMp4, written, calls>>
     ELSE \E code \in ExitCodes, wrote \in BOOLEAN :
            LET plan == NormalizePlan(det.ffprobe)
            IN  /\ norm' = [ok |-> (code = 0), method |-> plan.method,
                            vf |-> plan.vf, faststart |-> plan.faststart,
                            reason |-> IF code = 0 THEN "" ELSE "ffmpeg_failed"]
                /\ outMp4' = IF wrote
                             THEN [outMp4 EXCEPT ![BaseOf(file)] = Produced(plan.method, file)]
                             ELSE outMp4
                /\ written' = IF wrote THEN written \cup {Wrote("mp4", BaseOf(file), 0)}
                              ELSE written
                /\ calls' = calls \cup {"ffmpeg-normalize"}
  /\ pc' = "norm_ret"
  /\ UNCHANGED <<cfgVars, mainVars, file, exifCode, summary, conv, dim, det,
                 outJpg, scratch, failed>>

(***************************************************************************)
(* processOne, motion path and exit.                                       *)
(***************************************************************************)
\* if (tools.ffprobe) detectEmbeddedVideo(...) else steps.push
P_Motion ==
  /\ pc = "motion"
  /\ IF tools["ffprobe"]
     THEN /\ pc' = "detect"
          /\ summary' = summary
     ELSE /\ pc' = "finally"
          /\ summary' = [summary EXCEPT !.steps =
                           Append(@, Step("motion", "disabled (ffprobe missing)"))]
  /\ UNCHANGED <<cfgVars, mainVars, file, exifCode, conv, dim, det, norm,
                 outJpg, outMp4, scratch, logVars>>

\* detectEmbeddedVideo has returned: what processOne does with det, up to the
\* call of normalizeMp4.  Of det, the result is kept
P_AfterDet ==
  /\ pc = "after_det"
  /\ IF det.ok
     THEN IF ~args.dryRun
          THEN /\ summary' = [summary EXCEPT !.steps = Append(@, Step("motion", "candidate"))]
               /\ pc' = "normalize"
               /\ scratch' = scratch
               /\ det' = [det EXCEPT !.buf = <<>>, !.cands = <<>>, !.i = 0,
                                     !.probed = <<>>, !.kept = {}]
          ELSE /\ summary' = [summary EXCEPT !.steps =
                    Append(Append(@, Step("motion", "candidate")),
                           Step("dry-run", "skip mp4 normalize"))]
               /\ pc' = "finally"
               /\ \E unlinkOk \in BOOLEAN :
                    scratch' = [scratch EXCEPT !.slices =
                                  IF unlinkOk THEN @ \ {det.tmp} ELSE @]
               /\ det' = NoDet
     ELSE /\ summary' = [summary EXCEPT !.steps = Append(@, Step("motion", "none"))]
          /\ pc' = "finally"
          /\ scratch' = scratch
          /\ det' = NoDet
  /\ UNCHANGED <<cfgVars, mainVars, file, exifCode, conv, dim, norm, outJpg,
                 outMp4, logVars>>

\* normalizeMp4 has returned: errors.push or steps.push, then the unlink of
\* the accepted slice; the block of the motion path ends
P_AfterNorm ==
  /\ pc = "norm_ret"
  /\ IF ~norm.ok
     THEN /\ summary' = [summary EXCEPT !.errors = Append(@, "mp4 normalize failed")]
          /\ failed' = failed \cup {"normalize"}
     ELSE /\ summary' = [summary EXCEPT !.steps = Append(@, Step("mp4", norm.method))]
          /\ failed' = failed
  /\ \E unlinkOk \in BOOLEAN :
       scratch' = [scratch EXCEPT !.slices = IF unlinkOk THEN @ \ {det.tmp} ELSE @]
  /\ det' = NoDet
  /\ norm' = NoNorm
  /\ pc' = "finally"
  /\ UNCHANGED <<cfgVars, mainVars, file, exifCode, conv, dim, outJpg, outMp4,
                 written, calls>>

\* a removal that is not recursive: a directory that still holds a slice stays
P_FinallyMutant ==
  /\ pc = "finally"
  /\ scratch' = IF scratch.slices = {} THEN NoScratch ELSE scratch
  /\ pc' = "returned"
  /\ errored' = IF summary.errors # <<>> THEN errored \cup {file} ELSE errored
  /\ UNCHANGED <<cfgVars, mpc, queue, count, failures, processed, file, exifCode,
                 summary, conv, dim, det, norm, outJpg, outMp4, logVars>>

\* finally { fs.rm(tempDir, { recursive: true, force: true }) } ; return summary
P_Finally ==
  /\ pc = "finally"
  /\ scratch' = NoScratch
  /\ pc' = "returned"
  /\ errored' = IF summary.errors # <<>> THEN errored \cup {file} ELSE errored
  /\ UNCHANGED <<cfgVars, mpc, queue, count, failures, processed, file, exifCode,
                 summary, conv, dim, det, norm, outJpg, outMp4, logVars>>

(***************************************************************************)
(* main.                                                                   *)
(***************************************************************************)
\* for await (const file of iterateFiles(...)) { count++; processOne(...)
M_Next ==
  /\ mpc = "loop"
  /\ pc = "idle"
  /\ queue # <<>>
  /\ file' = Head(queue)
  /\ queue' = Tail(queue)
  /\ count' = count + 1
  /\ processed' = Append(processed, Head(queue))
  /\ pc' = "start"
  /\ UNCHANGED <<cfgVars, mpc, failures, errored, exifCode, summary, conv, dim, det, norm,
                 outJpg, outMp4, scratch, logVars>>

\* if (summary.errors.length) failures++ ; the iteration ends, and what
\* processOne held with it
M_Collect ==
  /\ mpc = "loop"
  /\ pc = "returned"
  /\ failures' = IF summary.errors # <<>> THEN failures + 1 ELSE failures
  /\ pc' = "idle"
  /\ file' = NoFile
  /\ exifCode' = 0
  /\ summary' = NoSummary
  /\ conv' = NoConv
  /\ dim' = NoDim
  /\ det' = NoDet
  /\ norm' = NoNorm
  /\ written' = {}
  /\ calls' = {}
  /\ failed' = {}
  /\ UNCHANGED <<cfgVars, mpc, queue, count, processed, errored, outJpg, outMp4,
                 scratch>>

\* the loop ends: log.info(`Done. Processed ${count} file(s). ...`)
M_Done ==
  /\ mpc = "loop"
  /\ pc = "idle"
  /\ queue = <<>>
  /\ mpc' = "done"
  /\ UNCHANGED <<cfgVars, queue, count, failures, processed, errored, pc, file, exifCode,
                 summary, conv, dim, det, norm, outJpg, outMp4, scratch, logVars>>

(***************************************************************************)
(* The run of main over the source directory.                              *)
(***************************************************************************)
\* every file below the source directory, whatever its name
AllFiles ==
  { Path(<<>>, "a", "heic"), Path(<<>>, "a", "heif"), Path(<<>>, "notes", "txt"),
    Path(<<"sub">>, "c", "HEIC"), Path(<<"sub", "deep">>, "d", "heif") }

\* the default of --quality
DefaultQuality == 95

\* what no call of processOne is under way holds
Idle ==
  /\ file = NoFile
  /\ exifCode = 0
  /\ summary = NoSummary
  /\ conv = NoConv
  /\ dim = NoDim
  /\ det = NoDet
  /\ norm = NoNorm
  /\ written = {}
  /\ calls = {}
  /\ failed = {}

Init ==
  /\ \E found \in SUBSET ToolNames : tools = detectTools(found)
  /\ \E dryRun \in BOOLEAN, recursive \in BOOLEAN :
       args = [dryRun |-> dryRun, recursive |-> recursive, quality |-> DefaultQuality]
  /\ source = [f \in AllFiles |-> Content(f)]
  /\ mpc = "loop"
  /\ queue = iterateFiles(<<>>, MainRecursiveOption(args))
  /\ count = 0
  /\ failures = 0
  /\ processed = <<>>
  /\ errored = {}
  /\ pc = "idle"
  /\ Idle
  /\ outJpg = [st \in Stems |-> AbsentFile]
  /\ outMp4 = [st \in Stems |-> AbsentFile]
  /\ scratch = NoScratch

Next ==
  \/ M_Next \/ M_Collect \/ M_Done
  \/ P_Start \/ P_Orient \/ P_AfterConv \/ P_Validate \/ P_Meta \/ P_Motion
  \/ P_AfterDet \/ P_AfterNorm \/ P_Finally
  \/ ConvIM \/ ConvHeif \/ ConvFfmpeg
  \/ D_Scan \/ D_Probe
  \/ N_Normalize

Spec == Init /\ [][Next]_vars

(***************************************************************************)
(* convertStill on its own: every tool set, orientation code, quality and  *)
(* state of the destination, up to its return.                             *)
(***************************************************************************)
\* --quality values of the calls
Qualities == {1, 50, 100}

InitConv ==
  /\ \E found \in SUBSET ToolNames : tools = detectTools(found)
  /\ \E quality \in Qualities :
       args = [dryRun |-> FALSE, recursive |-> FALSE, quality |-> quality]
  /\ source = [f \in AllFiles |-> Content(f)]
  /\ mpc = "call"
  /\ queue = <<>>
  /\ count = 0
  /\ failures = 0
  /\ processed = <<>>
  /\ errored = {}
  /\ pc = "conv_im"
  /\ file = Path(<<>>, "a", "heic")
  /\ exifCode \in 1..8
  /\ summary = NoSummary
  /\ conv = NoConv
  /\ dim = NoDim
  /\ det = NoDet
  /\ norm = NoNorm
  /\ written = {}
  /\ calls = {}
  /\ failed = {}
  /\ \E stale \in BOOLEAN :
       outJpg = [st \in Stems |-> IF stale THEN StaleFile ELSE AbsentFile]
  /\ outMp4 = [st \in Stems |-> AbsentFile]
  /\ scratch = [dir |-> TRUE, slices |-> {}]

NextConv == ConvIM \/ ConvHeif \/ ConvFfmpeg

SpecConv == InitConv /\ [][NextConv]_vars

(***************************************************************************)
(* detectEmbeddedVideo on its own, on synthetic byte buffers, up to what    *)
(* processOne records of its result.                                       *)
(***************************************************************************)
\* a box header with its brand: size field, marker, brand
FtypBox(brand) == Size4 \o FtypMarker \o brand

\* the pieces the synthetic buffers are concatenations of: whole boxes, and a
\* bare marker, four bytes with a high bit and a single byte, which put markers
\* at every alignment, at the start and at the end of the buffer
Chunks == {FtypBox(BrandHeic), FtypBox(BrandMp42), FtypMarker, BrandHighBit, Pad1}

RECURSIVE Buffers(_)
Buffers(n) ==
  IF n = 0 THEN {<<>>}
  ELSE LET shorter == Buffers(n - 1)
       IN  shorter \cup {b \o c : b \in shorter, c \in Chunks}

SyntheticFile == Path(<<>>, "synthetic", "heic")

InitScan ==
  /\ \E probe \in BOOLEAN :
       tools = detectTools(IF probe THEN {"ffprobe"} ELSE {})
  /\ args = [dryRun |-> FALSE, recursive |-> FALSE, quality |-> DefaultQuality]
  /\ \E buf \in Buffers(MaxChunks) :
       source = [f \in {SyntheticFile} |-> SourceFile(buf, 1, Absent)]
  /\ mpc = "call"
  /\ queue = <<>>
  /\ count = 0
  /\ failures = 0
  /\ processed = <<>>
  /\ errored = {}
  /\ pc = "detect"
  /\ file = SyntheticFile
  /\ exifCode = 1
  /\ summary = NoSummary
  /\ conv = NoConv
  /\ dim = NoDim
  /\ det = NoDet
  /\ norm = NoNorm
  /\ written = {}
  /\ calls = {}
  /\ failed = {}
  /\ outJpg = [st \in Stems |-> AbsentFile]
  /\ outMp4 = [st \in Stems |-> AbsentFile]
  /\ scratch = [dir |-> TRUE, slices |-> {}]

NextScan == D_Scan \/ D_Probe \/ P_AfterDet

SpecScan == InitScan /\ [][NextScan]_vars

(***************************************************************************)
(* The orientation resolver on its own: every pair of tools, and every     *)
(* Orientation and rotate tag a file may carry, up to the orientation      *)
(* decision of processOne.                                                 *)
(***************************************************************************)
\* Number of what exiftool prints for -Orientation#: no number, an empty
\* output (0), the codes, a value above them, and 2.5
OrientationTags == {NaN, 0, 9, Half(2)} \cup (1..8)

\* the rotate tag of the first video stream: none, degrees, no number
RotateTags == {Absent, 0, 90, 180, 270, 360, 450, -90, -270, 45, NaN}

InitOrient ==
  /\ \E found \in SUBSET {"exiftool", "ffprobe"} : tools = detectTools(found)
  /\ \E dryRun \in BOOLEAN :
       args = [dryRun |-> dryRun, recursive |-> FALSE, quality |-> DefaultQuality]
  /\ \E o \in OrientationTags, r \in RotateTags :
       source = [f \in {SyntheticFile} |-> SourceFile(FtypBox(BrandHeic), o, r)]
  /\ mpc = "call"
  /\ queue = <<>>
  /\ count = 0
  /\ failures = 0
  /\ processed = <<>>
  /\ errored = {}
  /\ pc = "orient"
  /\ file = SyntheticFile
  /\ exifCode = 0
  /\ summary = NoSummary
  /\ conv = NoConv
  /\ dim = NoDim
  /\ det = NoDet
  /\ norm = NoNorm
  /\ written = {}
  /\ calls = {}
  /\ failed = {}
  /\ outJpg = [st \in Stems |-> AbsentFile]
  /\ outMp4 = [st \in Stems |-> AbsentFile]
  /\ scratch = [dir |-> TRUE, slices |-> {}]

NextOrient == P_Orient

SpecOrient == InitOrient /\ [][NextOrient]_vars

(***************************************************************************)
(* normalizeMp4 on its own: called by processOne on an accepted slice, for *)
(* every rotate tag and side data of the first video stream, up to the     *)
(* end of the motion path.                                                 *)
(***************************************************************************)
\* side_data_list values of a video stream
SideDataLists ==
  { <<>>, <<DisplayMatrixType>>, <<"displaymatrix">>, <<"Stereo 3D">> }

\* the probes of accepted slices: a video stream, first or after an audio one
NormalizeProbes ==
  { Json(Mp4Names, Len(lead) + 1, 3000,
         lead \o <<Stream("video", FALSE, 1920, 1080, 90, 3000, rot, side)>>) :
      lead \in { <<>>, <<Stream("audio", FALSE, 0, 0, Absent, 3000, 90, <<>>)>> },
      rot \in RotateTags, side \in SideDataLists }

\* the box start of the accepted candidate of the file a.heic
AcceptedStart == 12

InitNorm ==
  /\ \E found \in SUBSET {"ffmpeg"} : tools = detectTools({"ffprobe"} \cup found)
  /\ args = [dryRun |-> FALSE, recursive |-> FALSE, quality |-> DefaultQuality]
  /\ source = [f \in AllFiles |-> Content(f)]
  /\ mpc = "call"
  /\ queue = <<>>
  /\ count = 0
  /\ failures = 0
  /\ processed = <<>>
  /\ errored = {}
  /\ pc = "normalize"
  /\ file = Path(<<>>, "a", "heic")
  /\ exifCode = 1
  /\ summary = NoSummary
  /\ conv = NoConv
  /\ dim = NoDim
  /\ \E json \in NormalizeProbes :
       det = [NoDet EXCEPT !.done = TRUE, !.ok = TRUE, !.tmp = AcceptedStart,
                           !.ffprobe = json]
  /\ norm = NoNorm
  /\ written = {Wrote("slice", "a", AcceptedStart)}
  /\ calls = {"scan", "ffprobe-slice"}
  /\ failed = {}
  /\ outJpg = [st \in Stems |-> AbsentFile]
  /\ outMp4 = [st \in Stems |-> AbsentFile]
  /\ scratch = [dir |-> TRUE, slices |-> {AcceptedStart}]

NextNorm == N_Normalize \/ P_AfterNorm

SpecNorm == InitNorm /\ [][NextNorm]_vars

(***************************************************************************)
(* Properties.                                                             *)
(***************************************************************************)
Range(seq) == {seq[k] : k \in 1..Len(seq)}

\* the last invocation convertStill made
LastRun == conv.runs[Len(conv.runs)]

\* C1: convertStill returns success only if the strategy it names as its
\* method was the one invoked last, exited with code 0, and the destination
\* file existed when checked (and exists at the return); a non-zero exit with a
\* destination already present is never a success.
C1_SuccessNeedsExitZeroAndFile ==
  (pc = "conv_ret" /\ conv.ok) =>
     /\ conv.runs # <<>>
     /\ LastRun.tool = conv.method
     /\ LastRun.code = 0
     /\ LastRun.existed
     /\ exists(outJpg[BaseOf(file)])

\* C1, its case: a strategy exited non-zero with the destination present, was
\* counted as a failure, and a later strategy succeeded
C1_Witness ==
  /\ pc = "conv_ret"
  /\ conv.ok
  /\ conv.method = "heif-convert"
  /\ Len(conv.runs) = 2
  /\ conv.runs[1].code # 0
  /\ conv.runs[1].existed
  /\ Len(conv.failures) = 1

\* the geometric operations of an OrientationCode, as the specification lists them
OpsOfOrientation(c) ==
  CASE c = 1 -> <<>>
    [] c = 2 -> <<"-flop">>
    [] c = 3 -> <<"-rotate", "180">>
    [] c = 4 -> <<"-flip">>
    [] c = 5 -> <<"-transpose">>
    [] c = 6 -> <<"-rotate", "90">>
    [] c = 7 -> <<"-transverse">>
    [] c = 8 -> <<"-rotate", "270">>

\* C2: for every OrientationCode in 1..8 resolved by processOne for a file, the
\* ImageMagick invocation convertStill makes carries exactly the geometric
\* operations of that code.
C2_ImageMagickOpsFollowOrientation ==
  \A k \in 1..Len(conv.runs) :
     (conv.runs[k].tool = "imagemagick" /\ exifCode \in 1..8)
       => conv.runs[k].ops = OpsOfOrientation(exifCode)

\* what marks the still path of the call under way as failed
StillPathFailed == failed \cap {"convert", "validate"} # {}

\* C3: in processOne (not dry-run, video prober available), when convertStill
\* returns aggregate failure or the dimension validation rejects the output,
\* the container scan of that file is still carried out before processOne
\* returns.
C3_StillFailureDoesNotBlockMotion ==
  (pc = "returned" /\ ~args.dryRun /\ tools["ffprobe"] /\ StillPathFailed)
     => "scan" \in calls

\* C4: processOne never throws past its own boundary, and whenever one of its
\* steps failed (scratch directory, reading the source, conversion, validation,
\* metadata copy, probing, MP4 normalisation) the summary it returns holds an
\* error.
C4_NeverThrowsAndRecordsFailures ==
  /\ pc # "thrown"
  /\ (pc = "returned" /\ failed # {}) => summary.errors # <<>>

HeicFiles == {f \in AllFiles : LowerCase(f.ext) \in {"heic", "heif"}}

\* C6: with --recursive every .heic/.heif file in any subfolder of the source
\* directory, at any depth, is processed by the run; without it only the files
\* directly inside the source directory are.
C6_RecursiveProcessesSubfolders ==
  mpc = "done" =>
     Range(processed) = IF args.recursive THEN HeicFiles
                        ELSE {f \in HeicFiles : f.dir = <<>>}

\* C7: with --dry-run, processing a file writes no file: no still converter,
\* metadata copier or MP4 normaliser is invoked, no <basename>.jpg or
\* <basename>.mp4 is created or modified, and nothing else is written to
\* storage while the file is processed.
C7_DryRunWritesNoFile ==
  args.dryRun =>
     /\ calls \cap {"imagemagick", "heif-convert", "ffmpeg-frame",
                    "exiftool-metadata", "ffmpeg-normalize"} = {}
     /\ \A st \in Stems : outJpg[st] = AbsentFile /\ outMp4[st] = AbsentFile
     /\ written = {}

\* C8: a per-file failure never aborts the batch: main passes every enumerated
\* file to processOne exactly once, in order, whatever happened to earlier
\* files, and the final report's processed count is the number of enumerated
\* files and its failure count the number of files whose summary held an error.
C8_BatchNeverAborted ==
  /\ mpc # "fatal"
  /\ mpc = "done" =>
       /\ processed = iterateFiles(<<>>, MainRecursiveOption(args))
       /\ count = Len(processed)
       /\ failures = Cardinality(errored)

\* the four bytes of a buffer at an offset, Null when they leave the buffer
BytesAt(buf, off) ==
  IF off < 0 \/ off + 4 > Len(buf) THEN Null ELSE SubSeq(buf, off + 1, off + 4)

\* the brand tag that follows the marker of the box starting at offset start
BrandAt(buf, start) == BytesAt(buf, start + 8)

\* a box start the scanner must never yield
Excluded(buf, start) == start = 0 \/ BrandAt(buf, start) \in HEIF_LIKE_BRANDS

\* C9: for every byte buffer, no candidate the scanner yields, and no
\* candidate the prober is invoked on, has box start 0 or a brand tag of the
\* still-image family, however many such markers the buffer holds.
C9_NoPrimaryNoStillBrandCandidate ==
  /\ \A k \in 1..Len(det.cands) : ~Excluded(det.buf, det.cands[k].start)
  /\ \A k \in 1..Len(det.probed) : ~Excluded(det.buf, det.probed[k])

\* the offsets at which the marker occurs in a buffer
MarkerOffsets(buf) ==
  {i \in 0..(Len(buf) - 4) : SubSeq(buf, i + 1, i + 4) = FtypMarker}

\* C9, its case: the buffer holds a still-image brand in its primary header and
\* again later, and the prober has been invoked on some candidate of it
C9_Witness ==
  /\ det.probed # <<>>
  /\ Cardinality({i \in MarkerOffsets(det.buf) :
                    BytesAt(det.buf, i + 4) \in HEIF_LIKE_BRANDS}) >= 2
  /\ 4 \in MarkerOffsets(det.buf)

\* the box starts the claim expects for a buffer
ExpectedStarts(buf) ==
  {i - 4 : i \in {j \in MarkerOffsets(buf) :
                    j - 4 > 0 /\ BytesAt(buf, j + 4) \notin HEIF_LIKE_BRANDS}}

\* C10: the candidate list is exact: one candidate for each occurrence i of
\* 'ftyp' with i-4 > 0 whose following brand tag is not of the still-image
\* family, with start = i-4, and nothing else; a buffer with a still-image
\* brand in the primary header and one later mp4-like marker yields exactly
\* one candidate, at the later offset.
C10_CandidateListExact ==
  "scan" \in calls =>
     /\ {det.cands[k].start : k \in 1..Len(det.cands)} = ExpectedStarts(det.buf)
     /\ Len(det.cands) = Cardinality(ExpectedStarts(det.buf))
     /\ \A k \in 1..Len(det.cands) :
          det.cands[k].ftypIndex = det.cands[k].start + 4
     /\ det.buf = FtypBox(BrandHeic) \o FtypBox(BrandMp42) =>
          (Len(det.cands) = 1 /\ det.cands[1].start = 12)

\* what the validator is to accept: both dimensions above 64, and the pair
\* neither of the two placeholder sizes
AcceptablePair(w, h) ==
  /\ w > 64
  /\ h > 64
  /\ ~(w = 512 /\ h = 512)
  /\ ~(w = 320 /\ h = 240)

\* C11: the dimension validator accepts the pair getImageDimensions reports
\* exactly when both dimensions exceed 64 and the pair is neither 512x512 nor
\* 320x240; the 0x0 pair reported when the metadata reader is unavailable (or
\* fails) is rejected.
C11_ValidatorAcceptsExactlyPlausible ==
  dim.source # "unset" =>
     /\ (pc = "meta") = AcceptablePair(dim.width, dim.height)
     /\ (pc # "meta") => ("validate" \in failed /\ summary.errors # <<>>)
     /\ ~tools["exiftool"] => (dim.width = 0 /\ dim.height = 0 /\ pc # "meta")

\* C11, its case: a portrait pair whose transpose is a placeholder size has
\* been accepted
C11_Witness ==
  /\ pc = "meta"
  /\ dim.width = 240
  /\ dim.height = 320

\* round(31 - (q/100)*29) clamped to [2,31], for a quality q of 1..100
QscaleOfQuality(q) == Clamp((3150 - 29 * q) \div 100, 2, 31)

\* C12: in the video-frame-extraction strategy of convertStill the quality
\* scale passed to the tool is the one derived from the quality argument of
\* the call: round(31 - (q/100)*29) clamped to [2,31].
C12_QscaleFollowsQuality ==
  \A k \in 1..Len(conv.runs) :
     conv.runs[k].tool = "ffmpeg-frame"
       => conv.runs[k].q = QscaleOfQuality(args.quality)

(***************************************************************************)
(* The geometry of the operations the two tools are given.  An image is    *)
(* the sequence of its rows, a row the sequence of its pixels.             *)
(***************************************************************************)
Height(img) == Len(img)
Width(img) == Len(img[1])

\* ImageMagick: -flop mirrors horizontally, -flip vertically, -transpose along
\* the top-left to bottom-right diagonal, -transverse along the bottom-left
\* to top-right diagonal, -rotate turns clockwise by the degrees given
Flop(img) ==
  [r \in 1..Height(img) |-> [c \in 1..Width(img) |-> img[r][Width(img) + 1 - c]]]

Flip(img) ==
  [r \in 1..Height(img) |-> [c \in 1..Width(img) |-> img[Height(img) + 1 - r][c]]]

ImTranspose(img) ==
  [r \in 1..Width(img) |-> [c \in 1..Height(img) |-> img[c][r]]]

ImTransverse(img) ==
  [r \in 1..Width(img) |->
     [c \in 1..Height(img) |-> img[Height(img) + 1 - c][Width(img) + 1 - r]]]

ImRotate(img, degrees) ==
  CASE degrees = "90" ->
         [r \in 1..Width(img) |-> [c \in 1..Height(img) |-> img[Height(img) + 1 - c][r]]]
    [] degrees = "180" ->
         [r \in 1..Height(img) |->
            [c \in 1..Width(img) |-> img[Height(img) + 1 - r][Width(img) + 1 - c]]]
    [] degrees = "270" ->
         [r \in 1..Width(img) |-> [c \in 1..Height(img) |-> img[c][Width(img) + 1 - r]]]

\* the operations of an ImageMagick command line, applied from left to right
RECURSIVE ApplyImOps(_, _)
ApplyImOps(ops, img) ==
  IF ops = <<>> THEN img
  ELSE IF Head(ops) = "-rotate"
  THEN ApplyImOps(Tail(Tail(ops)), ImRotate(img, ops[2]))
  ELSE ApplyImOps(Tail(ops),
                  CASE Head(ops) = "-flop" -> Flop(img)
                    [] Head(ops) = "-flip" -> Flip(img)
                    [] Head(ops) = "-transpose" -> ImTranspose(img)
                    [] Head(ops) = "-transverse" -> ImTransverse(img))

\* ffmpeg: hflip and vflip mirror, transpose=1 turns a quarter clockwise,
\* transpose=2 a quarter counter-clockwise
Hflip(img) ==
  [r \in 1..Height(img) |-> [c \in 1..Width(img) |-> img[r][Width(img) - (c - 1)]]]

Vflip(img) ==
  [r \in 1..Height(img) |-> [c \in 1..Width(img) |-> img[Height(img) - (r - 1)][c]]]

FfTranspose(img, dir) ==
  CASE dir = 1 ->
         [r \in 1..Width(img) |-> [c \in 1..Height(img) |-> img[Height(img) - (c - 1)][r]]]
    [] dir = 2 ->
         [r \in 1..Width(img) |-> [c \in 1..Height(img) |-> img[c][Width(img) - (r - 1)]]]

\* a -vf expression as the chain of its filters, separated by commas
FilterChain(vf) ==
  CASE vf = NoFilter -> <<>>
    [] vf = "hflip" -> <<"hflip">>
    [] vf = "vflip" -> <<"vflip">>
    [] vf = "hflip,vflip" -> <<"hflip", "vflip">>
    [] vf = "transpose=1" -> <<"transpose=1">>
    [] vf = "transpose=2" -> <<"transpose=2">>
    [] vf = "transpose=1,hflip" -> <<"transpose=1", "hflip">>
    [] vf = "transpose=2,hflip" -> <<"transpose=2", "hflip">>

RECURSIVE ApplyFilters(_, _)
ApplyFilters(chain, img) ==
  IF chain = <<>> THEN img
  ELSE ApplyFilters(Tail(chain),
                    CASE Head(chain) = "hflip" -> Hflip(img)
                      [] Head(chain) = "vflip" -> Vflip(img)
                      [] Head(chain) = "transpose=1" -> FfTranspose(img, 1)
                      [] Head(chain) = "transpose=2" -> FfTranspose(img, 2))

\* synthetic images: no symmetry, so that the eight transforms all differ
Images ==
  { << <<1, 2, 3>>, <<4, 5, 6>> >>,
    << <<1, 2>>, <<3, 4>>, <<5, 6>> >>,
    << <<1, 2>>, <<3, 4>> >>,
    << <<1, 2, 3>> >> }

\* C13: for every OrientationCode in 1..8 the operation list of
\* imagemagickOpsForExif and the filter expression of ffmpegFilterForExif give
\* the same output on the same image, and so does the filter an ffmpeg
\* invocation of convertStill carried for the code of the call.
C13_OpsAndFilterSameTransform ==
  exifCode \in 1..8 =>
     \A img \in Images :
        /\ ApplyImOps(imagemagickOpsForExif(exifCode), img)
             = ApplyFilters(FilterChain(ffmpegFilterForExif(exifCode)), img)
        /\ \A k \in 1..Len(conv.runs) :
             conv.runs[k].tool = "ffmpeg-frame" =>
                ApplyFilters(FilterChain(conv.runs[k].vf), img)
                  = ApplyImOps(imagemagickOpsForExif(exifCode), img)

\* C13, its case: the frame extractor has been invoked for a code whose filter
\* is a chain of two, and a quarter turn has changed the shape of an image
C13_Witness ==
  /\ pc = "conv_ret"
  /\ exifCode = 5
  /\ conv.runs # <<>>
  /\ LastRun.tool = "ffmpeg-frame"
  /\ LastRun.vf = "transpose=1,hflip"
  /\ \E img \in Images :
       Height(ApplyFilters(FilterChain(LastRun.vf), img)) # Height(img)

\* the code of a rotation in degrees, 0 when the degrees map to none
CodeOfRotation(deg) ==
  LET r == deg % 360
  IN  CASE r = 0 -> 1
        [] r = 90 -> 6
        [] r = 180 -> 3
        [] r = 270 -> 8
        [] OTHER -> 0

\* the orientation decision of processOne has been taken
OrientationResolved == pc \in {"conv_im", "motion"}

\* the reader is available and reports a number from 1 to 8
ReaderReportsCode ==
  tools["exiftool"] /\ source[file].orientation \in 1..8

\* the prober is available and the rotate tag (0 when there is none) maps to
\* a code
ProberReportsCode ==
  /\ tools["ffprobe"]
  /\ source[file].rotate # NaN
  /\ CodeOfRotation(OrElse(source[file].rotate, 0)) # 0

\* C14: the orientation resolver always returns an integer in 1..8: the
\* reader's value when the reader is available and reports an integer in
\* [1,8] (and exits zero), else the code mapped from the prober's rotation
\* normalised modulo 360, else 1.
C14_OrientationAlwaysCode ==
  OrientationResolved =>
     /\ exifCode \in 1..8
     /\ \/ ReaderReportsCode /\ exifCode = source[file].orientation
        \/ ProberReportsCode
             /\ exifCode = CodeOfRotation(OrElse(source[file].rotate, 0))
        \/ exifCode = 1
     /\ (~ReaderReportsCode /\ ~ProberReportsCode) => exifCode = 1

\* the first video stream of the probe normalizeMp4 was given
FirstVideo ==
  LET hits == {k \in 1..Len(det.ffprobe.streams) :
                 det.ffprobe.streams[k].codec_type = "video"}
  IN  det.ffprobe.streams[CHOOSE k \in hits : \A j \in hits : k <= j]

\* its rotation in degrees, normalised modulo 360 (0 without a numeric tag)
NormalisedRotation ==
  IF FirstVideo.rotate \in {Absent, NaN} THEN 0 ELSE FirstVideo.rotate % 360

\* a display matrix is among its side data
HasDisplayTransform ==
  \E j \in 1..Len(FirstVideo.side_data_list) :
     FirstVideo.side_data_list[j] \in {DisplayMatrixType, "displaymatrix"}

\* C15: normalizeMp4 re-encodes exactly when the rotation of the first video
\* stream, normalised modulo 360, is non-zero or a display matrix is among its
\* side data, and remuxes otherwise; the re-encode filter is transpose=1 for
\* 90, transpose=2 for 270, hflip,vflip for 180 and the identity filter for
\* any other value; both variants mark the output fast-start.
C15_ReencodeExactlyWhenRotated ==
  (pc = "norm_ret" /\ "ffmpeg-normalize" \in calls) =>
     /\ norm.method = IF NormalisedRotation # 0 \/ HasDisplayTransform
                      THEN "reencode" ELSE "copy"
     /\ norm.faststart
     /\ norm.method = "reencode" =>
          norm.vf = CASE NormalisedRotation = 90 -> "transpose=1"
                      [] NormalisedRotation = 270 -> "transpose=2"
                      [] NormalisedRotation = 180 -> "hflip,vflip"
                      [] OTHER -> "null"

\* the strategies in the order of the chain, with the tool each one needs
StrategyOrder == <<"imagemagick", "heif-convert", "ffmpeg-frame">>

ToolOfStrategy(method) == IF method = "ffmpeg-frame" THEN "ffmpeg" ELSE method

\* the strategies whose tool is available, in the order of the chain
AvailableStrategies ==
  SelectSeq(StrategyOrder, LAMBDA m : tools[ToolOfStrategy(m)])

\* C16: convertStill invokes its strategies in the order raster converter,
\* dedicated decoder, frame extractor; a strategy only if its tool is
\* available and every earlier available strategy was invoked and failed;
\* none after the first success; and on aggregate failure the failure list
\* holds one diagnostic per available strategy, in attempt order.
C16_ChainOrderAndShortCircuit ==
  /\ \A k \in 1..Len(conv.runs) :
       /\ tools[ToolOfStrategy(conv.runs[k].tool)]
       /\ conv.runs[k].tool = AvailableStrategies[k]
       /\ k < Len(conv.runs) => ~(conv.runs[k].code = 0 /\ conv.runs[k].existed)
  /\ (pc = "conv_ret" /\ conv.ok) =>
       /\ LastRun.code = 0 /\ LastRun.existed
       /\ conv.method = LastRun.tool
  /\ (pc = "conv_ret" /\ ~conv.ok) =>
       /\ Len(conv.runs) = Len(AvailableStrategies)
       /\ Len(conv.failures) = Len(AvailableStrategies)
       /\ \A k \in 1..Len(conv.failures) :
            /\ conv.failures[k].method = AvailableStrategies[k]
            /\ conv.failures[k].code = conv.runs[k].code

\* C16, its case: the first and the last strategy are available, the first
\* failed and the last succeeded, with the decoder skipped for want of its tool
C16_Witness ==
  /\ pc = "conv_ret"
  /\ conv.ok
  /\ ~tools["heif-convert"]
  /\ Len(conv.runs) = 2
  /\ conv.runs[1].tool = "imagemagick"
  /\ conv.method = "ffmpeg-frame"
  /\ Len(conv.failures) = 1

\* the first video stream of the accepted probe that is no attached picture
\* (the probe has one when this is used)
MotionStreamOf(json) ==
  LET hits == {k \in 1..Len(json.streams) :
                 /\ json.streams[k].codec_type = "video"
                 /\ ~json.streams[k].attached_pic}
  IN  json.streams[CHOOSE k \in hits : \A j \in hits : k <= j]

\* C17: the prober accepts a candidate only if the probed slice has a
\* container format name among mp4, mov, 3g2, 3gp, mj2, a video stream that is
\* no attached picture, width and height of that stream above 32, and a
\* reported frame count of that stream above 5 or a reported duration above
\* 0.3 seconds, whatever the other fields of the probe hold.
C17_AcceptsOnlyOnFourConditions ==
  det.ok =>
     /\ \E k \in 1..Len(det.ffprobe.format_name) :
          det.ffprobe.format_name[k] \in {"mp4", "mov", "3g2", "3gp", "mj2"}
     /\ \E k \in 1..Len(det.ffprobe.streams) :
          /\ det.ffprobe.streams[k].codec_type = "video"
          /\ ~det.ffprobe.streams[k].attached_pic
     /\ MotionStreamOf(det.ffprobe).width > 32
     /\ MotionStreamOf(det.ffprobe).height > 32
     /\ \/ MotionStreamOf(det.ffprobe).nb_frames > 5
        \/ det.ffprobe.duration > 300
        \/ MotionStreamOf(det.ffprobe).duration > 300

\* the box starts of the candidates of the call
CandidateStarts == {det.cands[k].start : k \in 1..Len(det.cands)}

C18_WitnessNone ==
  /\ pc = "finally"
  /\ Step("motion", "none") \in Range(summary.steps)
  /\ "ffprobe-slice" \in calls
  /\ scratch.slices = {}

\* C19: a failure of metadata propagation marks the still path of the file
\* failed: when copyAllMetadata returns not-ok (reader missing or exiting
\* non-zero), the summary processOne returns holds an error.
C19_MetadataFailureRecorded ==
  (pc = "returned" /\ "metadata" \in failed) => summary.errors # <<>>

\* C20: a rejected still image is not left as output: when processOne returns
\* after a conversion or validation failure, the output directory holds no
\* <basename>.jpg written during this call.
C20_RejectedStillNotLeft ==
  (pc = "returned" /\ StillPathFailed) =>
     ~(exists(outJpg[BaseOf(file)]) /\ outJpg[BaseOf(file)].src = file)

\* C21: when convertStill reports success with a method, the destination was
\* written by that strategy during this call: a destination that was there
\* before the call, or that an earlier failed strategy left behind, never
\* makes a strategy that exited zero without writing it a success.
C21_SuccessMeansWrittenByMethod ==
  (pc = "conv_ret" /\ conv.ok) =>
     /\ LastRun.wrote
     /\ outJpg[BaseOf(file)] = Produced(conv.method, file)

\* C22: within one run no two distinct files handed to processOne share the
\* path of their JPG or of their MP4 in the output directory.
C22_OutputPathsDistinct ==
  \A i, j \in 1..Len(processed) :
     i # j =>
        /\ jpgPathFor(BaseOf(processed[i])) # jpgPathFor(BaseOf(processed[j]))
        /\ mp4PathFor(BaseOf(processed[i])) # mp4PathFor(BaseOf(processed[j]))

====
